---- MODULE Spec2Model ----
(***************************************************************************)
(* Model of src/game.py: the ModernWesterosGame class (impact parsing,     *)
(* stat tracking, terminal evaluation, turn resolution) and the Flask      *)
(* handlers game_action and reset_game that drive it through the session.  *)
(*                                                                         *)
(* Text is modelled as a sequence of lexemes.  Every lexeme is one         *)
(* character, except the two markers "STORY:" and "CHOICES:" and the two   *)
(* fixed replies of the code, which are kept whole; the code only ever     *)
(* searches for the markers as whole substrings.  The model covers a       *)
(* configured deployment: the API key is present and the constructor of    *)
(* ModernWesterosGame succeeds.                                            *)
(***************************************************************************)
EXTENDS Integers, Sequences, FiniteSets, TLC

VARIABLES
    session,        \* Flask session: "game_state" and "current_segment"
    choices_table,  \* rows of the sqlite table choices: <<choice_text, game_id>>
    game,           \* the ModernWesterosGame object built by the last request
    over,           \* what check_game_over returned in the last request
    response,       \* last HTTP response
    last,           \* the last request: its inputs and the state it started from
    choice_text,    \* argument of the last parse_stats_impact call
    impact,         \* outcome of the last parse_stats_impact call
    inflight        \* per request being served: the session it opened

vars == <<session, choices_table, game, over, response, last,
          choice_text, impact, inflight>>

-----------------------------------------------------------------------------
(* Bounds of the model *)

MaxLen == 6

MaxTurns == 2

MaxGames == 2

MaxRows == 1

MaxLongTurns == 11

-----------------------------------------------------------------------------
(* Python string primitives over lexeme sequences *)

Digits == {"0", "1", "2", "3", "4", "5", "6", "7", "8", "9"}

Signs == {"+", "-"}

Whitespace == {" ", "\n", "\t"}

DigitVal(c) ==
    CASE c = "0" -> 0 [] c = "1" -> 1 [] c = "2" -> 2 [] c = "3" -> 3
      [] c = "4" -> 4 [] c = "5" -> 5 [] c = "6" -> 6 [] c = "7" -> 7
      [] c = "8" -> 8 [] c = "9" -> 9

Min(S) == CHOOSE x \in S : \A y \in S : x <= y

Max(S) == CHOOSE x \in S : \A y \in S : x >= y

\* sep occurs in s at position i
OccursAt(s, sep, i) ==
    /\ i + Len(sep) - 1 <= Len(s)
    /\ \A k \in 1..Len(sep) : s[i + k - 1] = sep[k]

RECURSIVE FindFrom(_, _, _)
\* first position >= i at which sep occurs in s; 0 when there is none
FindFrom(s, sep, i) ==
    IF i + Len(sep) - 1 > Len(s) THEN 0
    ELSE IF OccursAt(s, sep, i) THEN i
    ELSE FindFrom(s, sep, i + 1)

\* str.find, 1-based; 0 when sep does not occur
Find(s, sep) == FindFrom(s, sep, 1)

\* the Python test "sep in s"
Contains(s, sep) == Find(s, sep) # 0

RECURSIVE Split(_, _)
\* str.split(sep): the pieces between the non-overlapping occurrences of sep,
\* scanned from the left
Split(s, sep) ==
    LET i == Find(s, sep)
    IN  IF i = 0
        THEN <<s>>
        ELSE <<SubSeq(s, 1, i - 1)>> \o Split(SubSeq(s, i + Len(sep), Len(s)), sep)

\* str.lstrip(chars)
LStrip(s, chars) ==
    LET keep == {i \in 1..Len(s) : s[i] \notin chars}
    IN  IF keep = {} THEN <<>> ELSE SubSeq(s, Min(keep), Len(s))

\* str.strip()
Strip(s) ==
    LET keep == {i \in 1..Len(s) : s[i] \notin Whitespace}
    IN  IF keep = {} THEN <<>> ELSE SubSeq(s, Min(keep), Max(keep))

RECURSIVE Decimal(_)
\* value of a sequence of digits
Decimal(ds) ==
    IF ds = <<>> THEN 0
    ELSE 10 * Decimal(SubSeq(ds, 1, Len(ds) - 1)) + DigitVal(ds[Len(ds)])

\* int(lit) for a literal made of digits and signs only: an optional sign
\* and at least one digit, anything else raises ValueError
PyInt(lit) ==
    LET body == IF lit # <<>> /\ lit[1] \in Signs THEN Tail(lit) ELSE lit
        ok   == body # <<>> /\ \A k \in 1..Len(body) : body[k] \in Digits
    IN  IF ok
        THEN [exc |-> FALSE,
              val |-> IF lit[1] = "-" THEN 0 - Decimal(body) ELSE Decimal(body)]
        ELSE [exc |-> TRUE, val |-> 0]

-----------------------------------------------------------------------------
(* ModernWesterosGame.parse_stats_impact *)

\* extract_number: keep the digit and sign characters, convert with int()
extract_number(impact_str) ==
    PyInt(SelectSeq(impact_str, LAMBDA c : c \in Digits \cup Signs))

\* choice.split("(")[1].split(")")[0].split(",")
Impacts(choice) ==
    Split(Split(Split(choice, <<"(">>)[2], <<")">>)[1], <<",">>)

\* the body of the try block: exc is TRUE when an exception leaves it
parse_body(choice) ==
    IF ~Contains(choice, <<"(">>) \/ ~Contains(choice, <<")">>)
    THEN [exc |-> FALSE, val |-> <<0, 0>>]
    ELSE LET impacts == Impacts(choice)
         IN  IF Len(impacts) < 2
             THEN [exc |-> FALSE, val |-> <<0, 0>>]
             ELSE LET happiness_impact == extract_number(impacts[1])
                      wealth_impact    == extract_number(impacts[2])
                  IN  IF happiness_impact.exc \/ wealth_impact.exc
                      THEN [exc |-> TRUE, val |-> <<0, 0>>]
                      ELSE [exc |-> FALSE,
                            val |-> <<happiness_impact.val, wealth_impact.val>>]

\* parse_stats_impact without its except clause
parse_stats_impact_uncaught(choice) == parse_body(choice)

\* try/except Exception around the body: every exception becomes (0, 0)
parse_stats_impact(choice) ==
    LET r == parse_body(choice)
    IN  IF r.exc THEN [exc |-> FALSE, val |-> <<0, 0>>] ELSE r

-----------------------------------------------------------------------------
(* Reading a segment: game_action, lines 271-280, 293-294, 310-315 *)

\* int(choice) for the accepted values
ChoiceIndex(c) == CASE c = "1" -> 1 [] c = "2" -> 2 [] c = "3" -> 3

\* segment.split("STORY:")[1].split("CHOICES:")[0].strip()
StoryOf(segment) ==
    LET parts == Split(segment, <<"STORY:">>)
    IN  IF Len(parts) < 2 THEN [exc |-> TRUE, val |-> <<>>]
        ELSE [exc |-> FALSE, val |-> Strip(Split(parts[2], <<"CHOICES:">>)[1])]

\* segment.split("CHOICES:\n")[1].split("\n")
RawChoices(segment) ==
    LET parts == Split(segment, <<"CHOICES:", "\n">>)
    IN  IF Len(parts) < 2 THEN [exc |-> TRUE, val |-> <<>>]
        ELSE [exc |-> FALSE, val |-> Split(parts[2], <<"\n">>)]

RECURSIVE StripNonEmpty(_)
\* [choice.strip() for choice in lines if choice.strip()]
StripNonEmpty(lines) ==
    IF lines = <<>> THEN <<>>
    ELSE LET c == Strip(Head(lines))
         IN  (IF c = <<>> THEN <<>> ELSE <<c>>) \o StripNonEmpty(Tail(lines))

\* the "choices" entry of a turn result: the first three non-empty lines
ShownChoices(segment) ==
    LET raw == RawChoices(segment)
    IN  IF raw.exc THEN raw
        ELSE LET c == StripNonEmpty(raw.val)
             IN  [exc |-> FALSE, val |-> SubSeq(c, 1, Min({3, Len(c)}))]

\* choices[int(choice) - 1].lstrip("123. ")
ChosenAction(segment, choice) ==
    LET raw == RawChoices(segment)
        k   == ChoiceIndex(choice)
    IN  IF raw.exc \/ k > Len(raw.val) THEN [exc |-> TRUE, val |-> <<>>]
        ELSE [exc |-> FALSE, val |-> LStrip(raw.val[k], {"1", "2", "3", ".", " "})]

-----------------------------------------------------------------------------
(* Texts of the model *)

NL == <<"\n">>

SegHead == <<"STORY:", " ", "s", "\n", "CHOICES:", "\n">>

\* a choice text "label (H: h, W: w)"
Annotated(label, h, w) ==
    <<label, " ", "(", "H", ":", " ">> \o h \o <<",", " ", "W", ":", " ">> \o w
        \o <<")">>

\* the numbering "n. " put before a choice text
Numbered(n, text) == <<n, ".", " ">> \o text

ChoiceA == Annotated("a", <<"+", "5", "0">>, <<"+", "5", "0", "0", "0", "0">>)

ChoiceB ==
    Annotated("b", <<"-", "1", "0", "0", "0">>, <<"+", "1", "0", "0", "0", "0", "0">>)

ChoiceC == Annotated("c", <<"+", "1", "0">>, <<"-", "5", "0", "0", "0", "0">>)

ChoiceD ==
    Annotated("d", <<"+", "8", "0">>, <<"-", "1", "5", "0", "0", "0", "0">>)

\* "Consult with Bran (Happiness: +10, Wealth: +25000)", label shortened
ChoiceBran == Annotated("B", <<"+", "1", "0">>, <<"+", "2", "5", "0", "0", "0">>)

\* no annotation
ChoiceF == <<"f">>

\* three annotated choices
SegGood ==
    SegHead \o Numbered("1", ChoiceA) \o NL \o Numbered("2", ChoiceB) \o NL
            \o Numbered("3", ChoiceC)

\* an empty line between two choice lines
SegBlank == SegHead \o Numbered("1", ChoiceD) \o NL \o NL \o Numbered("2", ChoiceF)

\* only two choice lines
SegShort == SegHead \o Numbered("1", ChoiceD) \o NL \o Numbered("2", ChoiceF)

\* no CHOICES: marker
SegNoChoices == <<"STORY:", " ", "s">>

GenTexts == {SegGood, SegBlank, SegShort, SegNoChoices}

\* outcomes of one call of the story chain
StoryOutcomes ==
    {[exc |-> FALSE, text |-> t] : t \in GenTexts} \cup {[exc |-> TRUE, text |-> <<>>]}

\* choice texts handed to make_choice directly
ChoiceTexts ==
    {ChoiceA, ChoiceB, ChoiceC, ChoiceD, ChoiceBran, ChoiceF, <<>>, <<" ">>}

\* literal replies of the code, each kept as one lexeme
ErrorSegment == <<"Error generating story segment.">>

UnclearConsequence == <<"The outcome of your choice was unclear...">>

\* a consequence text returned by the generator
ConsequenceText == <<"c">>

\* every text that can be pending in the session
AllSegments == GenTexts \cup {ErrorSegment}

\* every text that can reach make_choice
AllChoiceTexts ==
    ChoiceTexts \cup
        {ChosenAction(seg, c).val : seg \in AllSegments, c \in {"1", "2", "3"}}

\* parse_stats_impact, StoryOf, ShownChoices and ChosenAction tabulated over
\* these texts, so that each text is parsed once
ImpactTable == [t \in AllChoiceTexts |-> parse_stats_impact(t)]

StoryTable == [seg \in AllSegments |-> StoryOf(seg)]

ShownTable == [seg \in AllSegments |-> ShownChoices(seg)]

ChosenTable ==
    [seg \in AllSegments |-> [c \in {"1", "2", "3"} |-> ChosenAction(seg, c)]]

-----------------------------------------------------------------------------
(* ModernWesterosGame: construction, stats, terminal evaluation *)

StartHappiness == 30

StartWealth == 100000

VictoryHappiness == 80

VictoryWealth == 150000

TurnLimit == 10

MsgHappiness ==
    "Game Over! Your happiness has reached zero. The night is dark and full of terrors."

MsgWealth ==
    "Game Over! You've gone broke. Even the Iron Bank won't help you now."

MsgVictory ==
    "Victory! You've achieved both wealth and happiness. The North remembers your success!"

MsgTurns ==
    "Game Over! You've completed your journey, but haven't reached greatness."

\* the values os.urandom(16).hex() can give; 0 stands for "no game"
GameIds == 1..MaxGames

\* __init__: the fields of a new game object
NewGame(id) ==
    [player_history |-> <<>>,
     happiness      |-> StartHappiness,
     wealth         |-> StartWealth,
     turn_count     |-> 0,
     game_id        |-> id]

\* get_serializable_state that leaves the history out of the record
get_serializable_state_drops_history(g) ==
    [player_history |-> <<>>,
     happiness      |-> g.happiness,
     wealth         |-> g.wealth,
     turn_count     |-> g.turn_count,
     game_id        |-> g.game_id]

get_serializable_state(g) ==
    [player_history |-> g.player_history,
     happiness      |-> g.happiness,
     wealth         |-> g.wealth,
     turn_count     |-> g.turn_count,
     game_id        |-> g.game_id]

\* the keys load_state reads, in the order of its assignments
StateFields == <<"player_history", "happiness", "wealth", "turn_count", "game_id">>

\* the assignments of load_state from the k-th on: each one reads state[key]
\* and overwrites the attribute; a missing key raises KeyError at that point,
\* with the earlier assignments already made
RECURSIVE load_fields(_, _, _, _)
load_fields(g, state, fields, k) ==
    IF k > Len(fields) THEN [exc |-> FALSE, game |-> g]
    ELSE IF fields[k] \notin DOMAIN state THEN [exc |-> TRUE, game |-> g]
    ELSE load_fields([g EXCEPT ![fields[k]] = state[fields[k]]], state, fields, k + 1)

\* load_state that leaves the game_id of the object as constructed
load_state_keeps_id(g, state) == load_fields(g, state, SubSeq(StateFields, 1, 4), 1)

\* load_state into the object g: [exc, game], game being the object as the
\* call leaves it
load_state(g, state) == load_fields(g, state, StateFields, 1)

\* update_stats without the lower clamp of wealth
update_stats_unclamped(g, text) ==
    LET d == ImpactTable[text].val
    IN  [g EXCEPT !.happiness = Max({0, Min({100, g.happiness + d[1]})}),
                  !.wealth    = g.wealth + d[2]]

update_stats(g, text) ==
    LET d == ImpactTable[text].val
    IN  [g EXCEPT !.happiness = Max({0, Min({100, g.happiness + d[1]})}),
                  !.wealth    = Max({0, g.wealth + d[2]})]

\* check_game_over with the turn limit tested before victory
check_game_over_turns_first(g) ==
    IF g.happiness <= 0 THEN [is_game_over |-> TRUE, message |-> MsgHappiness]
    ELSE IF g.wealth <= 0 THEN [is_game_over |-> TRUE, message |-> MsgWealth]
    ELSE IF g.turn_count >= TurnLimit
         THEN [is_game_over |-> TRUE, message |-> MsgTurns]
    ELSE IF g.happiness >= VictoryHappiness /\ g.wealth >= VictoryWealth
         THEN [is_game_over |-> TRUE, message |-> MsgVictory]
    ELSE [is_game_over |-> FALSE, message |-> ""]

\* check_game_over without the test of the turn limit
check_game_over_without_limit(g) ==
    IF g.happiness <= 0 THEN [is_game_over |-> TRUE, message |-> MsgHappiness]
    ELSE IF g.wealth <= 0 THEN [is_game_over |-> TRUE, message |-> MsgWealth]
    ELSE IF g.happiness >= VictoryHappiness /\ g.wealth >= VictoryWealth
         THEN [is_game_over |-> TRUE, message |-> MsgVictory]
    ELSE [is_game_over |-> FALSE, message |-> ""]

check_game_over(g) ==
    IF g.happiness <= 0 THEN [is_game_over |-> TRUE, message |-> MsgHappiness]
    ELSE IF g.wealth <= 0 THEN [is_game_over |-> TRUE, message |-> MsgWealth]
    ELSE IF g.happiness >= VictoryHappiness /\ g.wealth >= VictoryWealth
         THEN [is_game_over |-> TRUE, message |-> MsgVictory]
    ELSE IF g.turn_count >= TurnLimit
         THEN [is_game_over |-> TRUE, message |-> MsgTurns]
    ELSE [is_game_over |-> FALSE, message |-> ""]

-----------------------------------------------------------------------------
(* The text generator and turn resolution *)

\* get_story_segment: story is the outcome of the chain, [exc, text]; a
\* failure of the store read or of the chain gives the literal error text
get_story_segment(story) ==
    IF story.exc THEN ErrorSegment ELSE story.text

\* the test "not choice_text or len(choice_text.strip()) == 0"
IsBlank(text) == text = <<>> \/ Strip(text) = <<>>

\* make_choice with the turn counted only after store_choice has returned
make_choice_late_increment(g, tbl, text, store_ok, conseq_ok, story) ==
    LET g1 == [g EXCEPT !.turn_count = g.turn_count + 1]
        failed(gx, tx) ==
            [game |-> gx, table |-> tx, raised |-> TRUE,
             consequence |-> UnclearConsequence,
             next_segment |-> get_story_segment(story)]
    IN  IF IsBlank(text) THEN failed(g1, tbl)
        ELSE IF ~store_ok THEN failed(g, tbl)
        ELSE LET t2 == Append(tbl, <<text, g.game_id>>)
                 g2 == update_stats(g1, text)
             IN  IF ~conseq_ok THEN failed(g2, t2)
                 ELSE [game |-> [g2 EXCEPT !.player_history = Append(@, text)],
                       table |-> t2, raised |-> FALSE,
                       consequence |-> ConsequenceText,
                       next_segment |-> get_story_segment(story)]

\* make_choice with the history appended before store_choice is called
make_choice_early_append(g, tbl, text, store_ok, conseq_ok, story) ==
    LET g1 == [g EXCEPT !.turn_count = g.turn_count + 1]
        failed(gx, tx) ==
            [game |-> gx, table |-> tx, raised |-> TRUE,
             consequence |-> UnclearConsequence,
             next_segment |-> get_story_segment(story)]
    IN  IF IsBlank(text) THEN failed(g1, tbl)
        ELSE LET ga == [g1 EXCEPT !.player_history = Append(@, text)]
             IN  IF ~store_ok THEN failed(ga, tbl)
                 ELSE LET t2 == Append(tbl, <<text, g.game_id>>)
                          g2 == update_stats(ga, text)
                      IN  IF ~conseq_ok THEN failed(g2, t2)
                          ELSE [game |-> g2, table |-> t2, raised |-> FALSE,
                                consequence |-> ConsequenceText,
                                next_segment |-> get_story_segment(story)]

\* make_choice with the history appended before the consequence is generated
make_choice_append_before_consequence(g, tbl, text, store_ok, conseq_ok, story) ==
    LET g1 == [g EXCEPT !.turn_count = g.turn_count + 1]
        failed(gx, tx) ==
            [game |-> gx, table |-> tx, raised |-> TRUE,
             consequence |-> UnclearConsequence,
             next_segment |-> get_story_segment(story)]
    IN  IF IsBlank(text) THEN failed(g1, tbl)
        ELSE IF ~store_ok THEN failed(g1, tbl)
        ELSE LET t2 == Append(tbl, <<text, g.game_id>>)
                 g2 == [update_stats(g1, text) EXCEPT
                            !.player_history = Append(@, text)]
             IN  IF ~conseq_ok THEN failed(g2, t2)
                 ELSE [game |-> g2, table |-> t2, raised |-> FALSE,
                       consequence |-> ConsequenceText,
                       next_segment |-> get_story_segment(story)]

\* make_choice on object g with the table rows tbl.  store_ok and conseq_ok
\* tell whether store_choice and the consequence chain return normally, story
\* is the outcome of the story chain of the get_story_segment call reached.
make_choice(g, tbl, text, store_ok, conseq_ok, story) ==
    LET g1 == [g EXCEPT !.turn_count = g.turn_count + 1]
        failed(gx, tx) ==
            [game |-> gx, table |-> tx, raised |-> TRUE,
             consequence |-> UnclearConsequence,
             next_segment |-> get_story_segment(story)]
    IN  IF IsBlank(text) THEN failed(g1, tbl)
        ELSE IF ~store_ok THEN failed(g1, tbl)
        ELSE LET t2 == Append(tbl, <<text, g.game_id>>)
                 g2 == update_stats(g1, text)
             IN  IF ~conseq_ok THEN failed(g2, t2)
                 ELSE [game |-> [g2 EXCEPT !.player_history = Append(@, text)],
                       table |-> t2, raised |-> FALSE,
                       consequence |-> ConsequenceText,
                       next_segment |-> get_story_segment(story)]

-----------------------------------------------------------------------------
(* State shared by the specifications *)

NoState == NewGame(0)

EmptySession == [has_game_state |-> FALSE, game_state |-> NoState,
                 current_segment |-> <<>>]

NoOver == [called |-> FALSE, is_game_over |-> FALSE, message |-> ""]

NoResponse ==
    [code |-> 0, status |-> "", message |-> "", turn |-> 0, happiness |-> 0,
     wealth |-> 0, consequence |-> <<>>, story |-> <<>>, choices |-> <<>>,
     is_game_over |-> FALSE, game_over_message |-> ""]

NoImpact == [called |-> FALSE, exc |-> FALSE, val |-> <<0, 0>>]

\* the last call: op names it, the other fields are its inputs and, for a
\* direct call of make_choice, the object it started from and what it returned.
\* target and missing are the object and the absent keys of a load_state call,
\* calls counts the make_choice calls of the game, clean tells whether each of
\* them had a non-blank text, a successful store and a successful consequence
NoLast ==
    [op |-> "none", data |-> [has |-> FALSE, choice |-> ""],
     pre_game |-> NoState, text |-> <<>>,
     store_ok |-> FALSE, conseq_ok |-> FALSE, raised |-> FALSE,
     consequence |-> <<>>, next_segment |-> <<>>, over_reported |-> FALSE,
     target |-> NoState, missing |-> {}, calls |-> 0, clean |-> TRUE]

\* the requests a threaded server may be serving at once
Requests == {1, 2}

IdleRequest == [pc |-> "idle", data |-> [has |-> FALSE, choice |-> ""],
                opened |-> EmptySession]

NoRequests == [r \in Requests |-> IdleRequest]

-----------------------------------------------------------------------------
(* SpecGame: one game object, driven through make_choice and               *)
(* check_game_over                                                         *)

InitGame ==
    /\ session = EmptySession
    /\ choices_table = <<>>
    /\ game = NewGame(1)
    /\ over = NoOver
    /\ response = NoResponse
    /\ last = NoLast
    /\ choice_text = <<>>
    /\ impact = NoImpact
    /\ inflight = NoRequests

MakeChoice(text, store_ok, conseq_ok, story) ==
    /\ game.turn_count < MaxTurns
    /\ \E r \in {make_choice(game, choices_table, text, store_ok, conseq_ok, story)} :
           /\ game' = r.game
           /\ choices_table' = r.table
           /\ last' = [NoLast EXCEPT !.op = "make_choice", !.pre_game = game,
                                     !.text = text, !.store_ok = store_ok,
                                     !.conseq_ok = conseq_ok,
                                     !.raised = r.raised,
                                     !.consequence = r.consequence,
                                     !.next_segment = r.next_segment,
                                     !.calls = last.calls + 1,
                                     !.clean = /\ last.clean
                                               /\ ~IsBlank(text)
                                               /\ store_ok /\ conseq_ok]
    /\ over' = NoOver
    /\ UNCHANGED <<session, response, choice_text, impact, inflight>>

CheckGameOver ==
    /\ ~over.called
    /\ LET go == check_game_over(game)
       IN  over' = [called |-> TRUE, is_game_over |-> go.is_game_over,
                    message |-> go.message]
    /\ UNCHANGED <<session, choices_table, game, response, last,
                   choice_text, impact, inflight>>

NextGame ==
    \/ \E text \in ChoiceTexts, store_ok \in BOOLEAN, conseq_ok \in BOOLEAN,
          story \in {[exc |-> TRUE, text |-> <<>>], [exc |-> FALSE, text |-> SegGood]} :
          MakeChoice(text, store_ok, conseq_ok, story)
    \/ CheckGameOver

SpecGame == InitGame /\ [][NextGame]_vars

-----------------------------------------------------------------------------
(* Spec: the Flask handlers game_action and reset_game on one session *)

\* values of data.get("choice"); has is FALSE when the key is absent
ChoiceValues ==
    {[has |-> FALSE, choice |-> ""]}
        \cup {[has |-> TRUE, choice |-> c] : c \in {"", " ", "1", "2", "3", "4"}}

\* the test "not choice"
Falsy(data) == ~data.has \/ data.choice = ""

\* the reply of the handler's "except Exception" clause
Error500 == [NoResponse EXCEPT !.code = 500, !.status = "error",
                               !.message = "list index out of range"]

\* the turn result built from the object g and the pending segment
TurnResult(g, segment, consequence, go) ==
    LET story   == StoryTable[segment]
        choices == ShownTable[segment]
    IN  IF story.exc \/ choices.exc THEN Error500
        ELSE [code |-> 200, status |-> "success", message |-> "",
              turn |-> g.turn_count + 1, happiness |-> g.happiness,
              wealth |-> g.wealth, consequence |-> consequence,
              story |-> story.val, choices |-> choices.val,
              is_game_over |-> go.is_game_over,
              game_over_message |-> IF go.is_game_over THEN go.message ELSE ""]

Init ==
    /\ session = EmptySession
    /\ choices_table = <<>>
    /\ game = NoState
    /\ over = NoOver
    /\ response = NoResponse
    /\ last = NoLast
    /\ choice_text = <<>>
    /\ impact = NoImpact
    /\ inflight = NoRequests

\* game_action, lines 257-283: no choice given or no stored game
StartGame(data, id, story) ==
    /\ Falsy(data) \/ ~session.has_game_state
    /\ LET g       == NewGame(id)
           segment == get_story_segment(story)
       IN  /\ game' = g
           /\ session' = [has_game_state |-> TRUE,
                          game_state |-> get_serializable_state(g),
                          current_segment |-> segment]
           /\ response' = TurnResult(g, segment, <<>>, NoOver)
    /\ last' = [NoLast EXCEPT !.op = "start", !.data = data]
    /\ over' = NoOver
    /\ UNCHANGED <<choices_table, choice_text, impact, inflight>>

\* the rejection path dropping the stored game
RejectChoice_clears(data) ==
    /\ ~Falsy(data)
    /\ session.has_game_state
    /\ data.choice \notin {"1", "2", "3"}
    /\ response' = [NoResponse EXCEPT !.code = 400, !.status = "error",
                                      !.message = "Invalid choice"]
    /\ last' = [NoLast EXCEPT !.op = "reject", !.data = data,
                              !.over_reported = last.over_reported]
    /\ game' = NoState
    /\ over' = NoOver
    /\ session' = EmptySession
    /\ UNCHANGED <<choices_table, choice_text, impact, inflight>>

\* game_action, lines 286-287: a choice other than "1", "2", "3"
RejectChoice(data) ==
    /\ ~Falsy(data)
    /\ session.has_game_state
    /\ data.choice \notin {"1", "2", "3"}
    /\ response' = [NoResponse EXCEPT !.code = 400, !.status = "error",
                                      !.message = "Invalid choice"]
    /\ last' = [NoLast EXCEPT !.op = "reject", !.data = data,
                              !.over_reported = last.over_reported]
    /\ game' = NoState
    /\ over' = NoOver
    /\ UNCHANGED <<session, choices_table, choice_text, impact, inflight>>

\* game_action, lines 289-321: resolve the turn of choice "1", "2" or "3"
ResolveTurn(data, id, store_ok, conseq_ok, story) ==
    /\ ~Falsy(data)
    /\ session.has_game_state
    /\ data.choice \in {"1", "2", "3"}
    /\ session.game_state.turn_count < MaxTurns
    /\ store_ok => Len(choices_table) < MaxRows
    /\ LET g0     == load_state(NewGame(id), session.game_state).game
           chosen == ChosenTable[session.current_segment][data.choice]
       IN  IF chosen.exc
           THEN /\ game' = g0
                /\ response' = Error500
                /\ last' = [NoLast EXCEPT !.op = "turn", !.data = data,
                                          !.raised = TRUE,
                                          !.over_reported = last.over_reported]
                /\ over' = NoOver
                /\ UNCHANGED <<session, choices_table>>
           ELSE \E r \in {make_choice(g0, choices_table, chosen.val,
                                      store_ok, conseq_ok, story)} :
                LET go == check_game_over(r.game)
                    re == TurnResult(r.game, r.next_segment, r.consequence, go)
                IN  /\ game' = r.game
                    /\ choices_table' = r.table
                    /\ session' = [has_game_state |-> TRUE,
                                   game_state |-> get_serializable_state(r.game),
                                   current_segment |-> r.next_segment]
                    /\ over' = [called |-> TRUE, is_game_over |-> go.is_game_over,
                                message |-> go.message]
                    /\ response' = re
                    /\ last' = [NoLast EXCEPT
                                  !.op = "turn", !.data = data,
                                  !.pre_game = g0, !.text = chosen.val,
                                  !.store_ok = store_ok,
                                  !.conseq_ok = conseq_ok,
                                  !.raised = r.raised,
                                  !.consequence = r.consequence,
                                  !.next_segment = r.next_segment,
                                  !.over_reported =
                                      \/ last.over_reported
                                      \/ re.code = 200 /\ re.is_game_over]
    /\ UNCHANGED <<choice_text, impact, inflight>>

\* reset_game: session.clear()
ResetGame ==
    /\ session' = EmptySession
    /\ response' = [NoResponse EXCEPT !.code = 200, !.status = "success",
                                      !.message = "Game reset successfully"]
    /\ last' = [NoLast EXCEPT !.op = "reset"]
    /\ game' = NoState
    /\ over' = NoOver
    /\ UNCHANGED <<choices_table, choice_text, impact, inflight>>

Next ==
    \/ \E data \in ChoiceValues, id \in GameIds, story \in StoryOutcomes :
          StartGame(data, id, story)
    \/ \E data \in ChoiceValues : RejectChoice(data)
    \/ \E data \in ChoiceValues, id \in GameIds, store_ok \in BOOLEAN,
          conseq_ok \in BOOLEAN, story \in StoryOutcomes :
          ResolveTurn(data, id, store_ok, conseq_ok, story)
    \/ ResetGame

Spec == Init /\ [][Next]_vars

-----------------------------------------------------------------------------
(* SpecParse: parse_stats_impact applied to one text *)

ParseAlphabet == {"(", ")", ",", "-", "1"}

\* every text over ParseAlphabet of at most MaxLen characters
ShortTexts == UNION {[1..n -> ParseAlphabet] : n \in 0..MaxLen}

ParseTokens ==
    {<<"H", ":", " ", "+", "2", "0">>, <<" ", "W", ":", " ", "-", "5", "0", "0", "0", "0">>,
     <<"+", "-", "5">>, <<"7", "-">>, <<"x">>, <<>>, <<" ", "0", "9">>}

\* texts "prefix t1 , t2 suffix" around an opening parenthesis
AnnotatedTexts ==
    {pre \o t1 \o <<",">> \o t2 \o suf :
        pre \in {<<"a", " ", "(">>, <<"a", "(", "b", " ", "(">>, <<")", "(">>},
        t1 \in ParseTokens, t2 \in ParseTokens,
        suf \in {<<")">>, <<",", "9", ")">>, <<")", " ", "(", "1", ",", "1", ")">>, <<>>}}

ParseInputs ==
    ShortTexts \cup AnnotatedTexts \cup AllChoiceTexts
        \cup {<<"n", "o", " ", "p", "a", "r", "e", "n", "s">>,
              <<"a", " ", "(", "W", ":", " ", "+", "4", "0", "0", "0", "0", ")">>}

InitParse ==
    /\ session = EmptySession
    /\ choices_table = <<>>
    /\ game = NoState
    /\ over = NoOver
    /\ response = NoResponse
    /\ last = NoLast
    /\ choice_text \in ParseInputs
    /\ impact = NoImpact
    /\ inflight = NoRequests

ParseStatsImpact ==
    /\ ~impact.called
    /\ \E r \in {parse_stats_impact(choice_text)} :
           impact' = [called |-> TRUE, exc |-> r.exc, val |-> r.val]
    /\ UNCHANGED <<session, choices_table, game, over, response, last,
                   choice_text, inflight>>

NextParse == ParseStatsImpact

SpecParse == InitParse /\ [][NextParse]_vars

-----------------------------------------------------------------------------
(* SpecOver: check_game_over applied to one game state *)

HappinessValues == {0, 1, 30, 79, 80, 100}

WealthValues == {0, 1, 100000, 149999, 150000, 200000}

TurnValues == {0, 1, 9, 10, 11}

InitOver ==
    /\ session = EmptySession
    /\ choices_table = <<>>
    /\ game \in [player_history : {<<>>}, happiness : HappinessValues,
                 wealth : WealthValues, turn_count : TurnValues, game_id : {1}]
    /\ over = NoOver
    /\ response = NoResponse
    /\ last = NoLast
    /\ choice_text = <<>>
    /\ impact = NoImpact
    /\ inflight = NoRequests

NextOver == CheckGameOver

SpecOver == InitOver /\ [][NextOver]_vars

-----------------------------------------------------------------------------
(* SpecState: get_serializable_state of one game object, then load_state   *)
(* of the record, or of the record without some of its keys, into another  *)
(* object                                                                  *)

HistoryValues == {<<>>, <<ChoiceA>>, <<ChoiceA, ChoiceF>>}

\* the states of the object that is serialised
GameStates ==
    [player_history : HistoryValues, happiness : {0, 30, 100},
     wealth : {0, 100000}, turn_count : {0, 1, 10}, game_id : GameIds]

\* the objects load_state is called on: as constructed, or already played
TargetObjects ==
    {NewGame(id) : id \in GameIds}
        \cup {[player_history |-> <<ChoiceC>>, happiness |-> 40, wealth |-> 50000,
                turn_count |-> 2, game_id |-> 1]}

\* the record without the keys in missing
WithoutKeys(state, missing) ==
    [f \in (DOMAIN state) \ missing |-> state[f]]

InitState ==
    /\ session = EmptySession
    /\ choices_table = <<>>
    /\ game \in GameStates
    /\ over = NoOver
    /\ response = NoResponse
    /\ last = NoLast
    /\ choice_text = <<>>
    /\ impact = NoImpact
    /\ inflight = NoRequests

GetSerializableState ==
    /\ last.op = "none"
    /\ session' = [has_game_state |-> TRUE,
                   game_state |-> get_serializable_state(game),
                   current_segment |-> <<>>]
    /\ last' = [NoLast EXCEPT !.op = "get_serializable_state", !.pre_game = game]
    /\ UNCHANGED <<choices_table, game, over, response, choice_text, impact,
                   inflight>>

LoadState(target, missing) ==
    /\ last.op = "get_serializable_state"
    /\ \E r \in {load_state(target, WithoutKeys(session.game_state, missing))} :
           /\ game' = r.game
           /\ last' = [last EXCEPT !.op = "load_state", !.raised = r.exc,
                                   !.target = target, !.missing = missing]
    /\ UNCHANGED <<session, choices_table, over, response, choice_text, impact,
                   inflight>>

NextState ==
    \/ GetSerializableState
    \/ \E target \in TargetObjects, missing \in SUBSET {"player_history", "happiness",
                                                       "wealth", "turn_count",
                                                       "game_id"} :
          LoadState(target, missing)

SpecState == InitState /\ [][NextState]_vars

-----------------------------------------------------------------------------
(* SpecLong: one game object played past the turn limit.  The texts are    *)
(* one annotated choice and the empty text, so that a game of MaxLongTurns *)
(* calls is explored in full.                                              *)

LongTexts == {ChoiceBran, <<>>}

LongChoice(text, store_ok, conseq_ok, story) ==
    /\ last.calls < MaxLongTurns
    /\ \E r \in {make_choice(game, choices_table, text, store_ok, conseq_ok, story)} :
           /\ game' = r.game
           /\ choices_table' = r.table
           /\ last' = [NoLast EXCEPT !.op = "make_choice", !.pre_game = game,
                                     !.text = text, !.store_ok = store_ok,
                                     !.conseq_ok = conseq_ok,
                                     !.raised = r.raised,
                                     !.consequence = r.consequence,
                                     !.next_segment = r.next_segment,
                                     !.calls = last.calls + 1,
                                     !.clean = /\ last.clean
                                               /\ ~IsBlank(text)
                                               /\ store_ok /\ conseq_ok]
    /\ over' = NoOver
    /\ UNCHANGED <<session, response, choice_text, impact, inflight>>

NextLong ==
    \/ \E text \in LongTexts, store_ok \in BOOLEAN, conseq_ok \in BOOLEAN,
          story \in {[exc |-> TRUE, text |-> <<>>], [exc |-> FALSE, text |-> SegGood]} :
          LongChoice(text, store_ok, conseq_ok, story)
    \/ CheckGameOver

SpecLong == InitGame /\ [][NextLong]_vars

-----------------------------------------------------------------------------
(* SpecConc: the choice requests of one client served at once.  The Flask  *)
(* session is the signed cookie the client holds: a request works on the   *)
(* contents the cookie had when the request was opened, and its response   *)
(* replaces the cookie.  game_action takes no lock and keeps no version of *)
(* the stored state, so the two steps of different requests interleave     *)
(* freely.                                                                 *)

AllIdle == \A r \in Requests : inflight[r].pc = "idle"

\* the first request of the client: a new game whose segment is well formed
ConcStart ==
    /\ AllIdle
    /\ ~session.has_game_state
    /\ \E id \in GameIds :
           StartGame([has |-> FALSE, choice |-> ""], id,
                     [exc |-> FALSE, text |-> SegGood])

\* request r arrives with the stored session and a choice "1", "2" or "3":
\* lines 252-253 and 286-291
OpenSession(r, data) ==
    /\ inflight[r].pc = "idle"
    /\ ~Falsy(data)
    /\ session.has_game_state
    /\ data.choice \in {"1", "2", "3"}
    /\ session.game_state.turn_count < MaxTurns
    /\ inflight' = [inflight EXCEPT ![r] = [pc |-> "opened", data |-> data,
                                            opened |-> session]]
    /\ UNCHANGED <<session, choices_table, game, over, response, last,
                   choice_text, impact>>

\* request r resolves its turn on the session it opened and its response
\* replaces the stored session: lines 289-321
SaveSession(r, id, store_ok, conseq_ok, story) ==
    /\ inflight[r].pc = "opened"
    /\ store_ok => Len(choices_table) < MaxRows
    /\ LET mine   == inflight[r].opened
           data   == inflight[r].data
           g0     == load_state(NewGame(id), mine.game_state).game
           chosen == ChosenTable[mine.current_segment][data.choice]
       IN  IF chosen.exc
           THEN /\ game' = g0
                /\ response' = Error500
                /\ last' = [NoLast EXCEPT !.op = "turn", !.data = data,
                                          !.raised = TRUE,
                                          !.calls = last.calls]
                /\ over' = NoOver
                /\ UNCHANGED <<session, choices_table>>
           ELSE \E res \in {make_choice(g0, choices_table, chosen.val,
                                        store_ok, conseq_ok, story)} :
                LET go == check_game_over(res.game)
                    re == TurnResult(res.game, res.next_segment, res.consequence, go)
                IN  /\ game' = res.game
                    /\ choices_table' = res.table
                    /\ session' = [has_game_state |-> TRUE,
                                   game_state |-> get_serializable_state(res.game),
                                   current_segment |-> res.next_segment]
                    /\ over' = [called |-> TRUE, is_game_over |-> go.is_game_over,
                                message |-> go.message]
                    /\ response' = re
                    /\ last' = [NoLast EXCEPT
                                  !.op = "turn", !.data = data,
                                  !.pre_game = g0, !.text = chosen.val,
                                  !.store_ok = store_ok,
                                  !.conseq_ok = conseq_ok,
                                  !.raised = res.raised,
                                  !.consequence = res.consequence,
                                  !.next_segment = res.next_segment,
                                  !.calls = last.calls + 1]
    /\ inflight' = [inflight EXCEPT ![r] = IdleRequest]
    /\ UNCHANGED <<choice_text, impact>>

NextConc ==
    \/ ConcStart
    \/ \E r \in Requests, data \in ChoiceValues : OpenSession(r, data)
    \/ \E r \in Requests, id \in GameIds, store_ok \in BOOLEAN,
          conseq_ok \in BOOLEAN,
          story \in {[exc |-> TRUE, text |-> <<>>], [exc |-> FALSE, text |-> SegGood]} :
          SaveSession(r, id, store_ok, conseq_ok, story)

SpecConc == Init /\ [][NextConc]_vars

-----------------------------------------------------------------------------
(* Properties *)

Clamp(x, lo, hi) == IF x < lo THEN lo ELSE IF x > hi THEN hi ELSE x

\* the stat update of the last make_choice call was reached
StatsApplied == last.op = "make_choice" /\ ~IsBlank(last.text) /\ last.store_ok

\* C1: in every state reached from a fresh game by make_choice calls,
\* 0 <= happiness <= 100 and wealth >= 0, and a wealth that the applied delta
\* would make negative is 0.
C1_StatsClamped ==
    /\ game.happiness >= 0
    /\ game.happiness <= 100
    /\ game.wealth >= 0
    /\ (StatsApplied /\ last.pre_game.wealth + ImpactTable[last.text].val[2] < 0)
           => game.wealth = 0

C1_Witness ==
    /\ StatsApplied
    /\ last.pre_game.wealth + ImpactTable[last.text].val[2] < 0
    /\ game.wealth = 0

\* C2: check_game_over reports the first matching condition in the order
\* happiness <= 0, wealth <= 0, victory, turn limit, and otherwise reports
\* that the game is not over.
C2_FirstMatchWins ==
    over.called =>
        LET h == game.happiness
            w == game.wealth
            victory == h >= 80 /\ w >= 150000
        IN  /\ h <= 0 => (over.is_game_over /\ over.message = MsgHappiness)
            /\ (h > 0 /\ w <= 0) => (over.is_game_over /\ over.message = MsgWealth)
            /\ (h > 0 /\ w > 0 /\ victory)
                   => (over.is_game_over /\ over.message = MsgVictory)
            /\ (h > 0 /\ w > 0 /\ ~victory /\ game.turn_count >= 10)
                   => (over.is_game_over /\ over.message = MsgTurns)
            /\ (h > 0 /\ w > 0 /\ ~victory /\ game.turn_count < 10)
                   => ~over.is_game_over

C2_Witness ==
    /\ over.called
    /\ game.happiness >= 80
    /\ game.wealth >= 150000
    /\ game.turn_count >= 10
    /\ over.message = MsgVictory

\* C3: once a turn result of the session has reported game over, a later
\* choice request leaves the stored happiness, wealth, turn_count and history
\* as they are.
C3_TerminalAbsorbing ==
    [][(last.over_reported /\ last'.op \in {"turn", "reject"})
          => session'.game_state = session.game_state]_vars

\* the pending segment of the session gives a story and three choices, and
\* each index 1, 2, 3 selects a line of it
Actionable(segment) ==
    /\ ~StoryTable[segment].exc
    /\ ~ShownTable[segment].exc
    /\ Len(ShownTable[segment].val) = 3
    /\ \A c \in {"1", "2", "3"} : ~ChosenTable[segment][c].exc

\* C4: after every game start and every turn, whatever the generator did,
\* the session holds a pending segment with three choices, the request is not
\* answered with the raw failure, and a choice 1, 2 or 3 can be resolved.
C4_NeverStuck ==
    session.has_game_state =>
        /\ Actionable(session.current_segment)
        /\ last.op \in {"start", "turn"} => response.code = 200

\* the text has an annotation of at least two tokens that both convert
WellFormedAnnotation(text) ==
    /\ Contains(text, <<"(">>)
    /\ Contains(text, <<")">>)
    /\ Len(Impacts(text)) >= 2
    /\ ~extract_number(Impacts(text)[1]).exc
    /\ ~extract_number(Impacts(text)[2]).exc

\* C5: make_choice with a non-blank text annotated (dh, dw) gives
\* happiness = clamp(h + dh, 0, 100), wealth = max(0, w + dw) and
\* turn_count = t + 1; from the defaults the Bran choice gives 40, 125000, 1
\* and check_game_over reports that the game is not over.
C5_ChoiceApplied ==
    (last.op = "make_choice" /\ ~IsBlank(last.text) /\ WellFormedAnnotation(last.text))
        => LET d == ImpactTable[last.text].val
               g == last.pre_game
           IN  /\ game.happiness = Clamp(g.happiness + d[1], 0, 100)
               /\ game.wealth = Max({0, g.wealth + d[2]})
               /\ game.turn_count = g.turn_count + 1
               /\ (last.text = ChoiceBran /\ g = NewGame(1))
                      => /\ game.happiness = 40
                         /\ game.wealth = 125000
                         /\ game.turn_count = 1
                         /\ over.called => ~over.is_game_over

\* C6: make_choice with empty or whitespace-only text does not consume the
\* turn: turn_count, happiness, wealth and history are as before the call.
C6_BlankNotConsumed ==
    (last.op = "make_choice" /\ IsBlank(last.text))
        => /\ game.turn_count = last.pre_game.turn_count
           /\ game.happiness = last.pre_game.happiness
           /\ game.wealth = last.pre_game.wealth
           /\ game.player_history = last.pre_game.player_history

\* C7, as claimed: on a session with a game, a request whose choice is not
\* "1", "2" or "3", blank or absent included, is rejected and leaves the
\* stored game state and the pending segment unchanged.
C7_AnyOtherChoiceRejected ==
    [][(session.has_game_state /\ last'.op \in {"start", "reject", "turn"}
            /\ last'.data.choice \notin {"1", "2", "3"})
          => (session' = session /\ response'.code = 400)]_vars

\* C7, amended: on a session with a game, a request whose choice is present
\* and not empty but not "1", "2" or "3" is rejected with status 400 and
\* leaves the stored game state and the pending segment unchanged.
C7_NonEmptyOtherChoiceRejected ==
    [][(session.has_game_state /\ last'.op \in {"start", "reject", "turn"}
            /\ last'.data.has
            /\ last'.data.choice \notin {"", "1", "2", "3"})
          => (/\ session' = session
              /\ response'.code = 400
              /\ response'.status = "error")]_vars

C7_Witness ==
    /\ last.op = "reject"
    /\ last.data.choice = "4"
    /\ response.code = 400
    /\ session.has_game_state
    /\ session.game_state.turn_count > 0

\* C8: every make_choice call with non-blank text increases turn_count by
\* exactly 1, whether or not the store, the parse, the consequence generation
\* or the next-segment generation fails.
C8_TurnAlwaysCounted ==
    (last.op = "make_choice" /\ ~IsBlank(last.text))
        => game.turn_count = last.pre_game.turn_count + 1

C8_Witness ==
    /\ last.op = "make_choice"
    /\ ~IsBlank(last.text)
    /\ ~last.store_ok
    /\ last.next_segment = ErrorSegment
    /\ game.turn_count = last.pre_game.turn_count + 1

\* the substring between the first "(" and the first ")" after it
FirstParenthesised(text) ==
    LET i    == Find(text, <<"(">>)
        rest == SubSeq(text, i + 1, Len(text))
        j    == Find(rest, <<")">>)
    IN  IF i = 0 \/ j = 0 THEN [defined |-> FALSE, val |-> <<>>]
        ELSE [defined |-> TRUE, val |-> SubSeq(rest, 1, j - 1)]

\* the digit and sign characters of the token are an optional sign followed
\* by at least one digit
SignedLiteral(token) ==
    LET lit == SelectSeq(token, LAMBDA c : c \in Digits \cup Signs)
    IN  /\ Len(lit) >= 1
        /\ \A k \in 2..Len(lit) : lit[k] \in Digits
        /\ lit[1] \in Digits \/ Len(lit) >= 2

\* C9: when the substring between the first "(" and the first ")" after it
\* splits on "," into at least two tokens whose digit and sign characters are
\* signed integer literals, parse_stats_impact returns the integers of the
\* first and of the second token.
C9_FirstTwoTokens ==
    LET ann  == FirstParenthesised(choice_text)
        toks == Split(ann.val, <<",">>)
    IN  (/\ impact.called
         /\ ann.defined
         /\ Len(toks) >= 2
         /\ SignedLiteral(toks[1])
         /\ SignedLiteral(toks[2]))
            => impact.val = <<extract_number(toks[1]).val, extract_number(toks[2]).val>>

ShownCount(segment) ==
    IF ShownTable[segment].exc THEN 0 ELSE Len(ShownTable[segment].val)

\* C11: when the pending segment has fewer than 3 non-empty choice lines, a
\* choice request for an index with no corresponding choice line fails
\* explicitly and resolves no turn: the reply is an error and the stored
\* turn_count, happiness, wealth and history are unchanged.
C11_MissingChoiceFailsExplicitly ==
    [][(/\ session.has_game_state
        /\ ShownCount(session.current_segment) < 3
        /\ last'.op = "turn"
        /\ ChoiceIndex(last'.data.choice) > ShownCount(session.current_segment))
          => /\ response'.code # 200
             /\ session'.game_state = session.game_state]_vars

\* C12: when store_choice fails inside make_choice on a non-blank text, the
\* happiness and wealth deltas of the text are still applied, exactly as in
\* the turn where the store succeeds.
C12_StoreFailureKeepsDeltas ==
    (last.op = "make_choice" /\ ~IsBlank(last.text) /\ ~last.store_ok)
        => LET stored == make_choice(last.pre_game, <<>>, last.text, TRUE,
                                     last.conseq_ok,
                                     [exc |-> FALSE, text |-> last.next_segment]).game
           IN  /\ game.happiness = stored.happiness
               /\ game.wealth = stored.wealth

\* C13: load_state of get_serializable_state(state) into any game object
\* returns normally and leaves that object with history, happiness, wealth,
\* turn_count and game_id equal to those of state.
C13_RoundTripLossless ==
    (last.op = "load_state" /\ last.missing = {})
        => /\ ~last.raised
           /\ game.player_history = last.pre_game.player_history
           /\ game.happiness = last.pre_game.happiness
           /\ game.wealth = last.pre_game.wealth
           /\ game.turn_count = last.pre_game.turn_count
           /\ game.game_id = last.pre_game.game_id

C13_Witness ==
    /\ last.op = "load_state"
    /\ last.missing = {}
    /\ last.target.player_history # last.pre_game.player_history
    /\ last.target.happiness # last.pre_game.happiness
    /\ last.target.wealth # last.pre_game.wealth
    /\ last.target.turn_count # last.pre_game.turn_count
    /\ last.target.game_id # last.pre_game.game_id
    /\ game = last.pre_game

\* C14: load_state of a record that lacks one of the five keys fails with an
\* error and overwrites none of the five fields of the object it is called on.
C14_LoadAllOrNothing ==
    (last.op = "load_state" /\ last.missing # {})
        => /\ last.raised
           /\ game = last.target

\* C15: in every run from a fresh game, once 10 choices have been submitted
\* to make_choice, whatever the texts and whatever the store and the
\* generator did, check_game_over reports game over, and it does so after
\* every later call too.
C15_OverWithinTurnLimit ==
    (over.called /\ last.calls >= 10) => over.is_game_over

C15_Witness ==
    /\ over.called
    /\ last.calls = 10
    /\ game.turn_count = 10
    /\ over.is_game_over
    /\ over.message = MsgTurns

\* C16: history is append-only: a make_choice call leaves the history as it
\* was or appends exactly the chosen text to it, and it appends only in a turn
\* whose stat update for that text has been applied.
C16_HistoryAppendOnly ==
    last.op = "make_choice" =>
        LET before == last.pre_game.player_history
            delta  == ImpactTable[last.text].val
        IN  \/ game.player_history = before
            \/ /\ game.player_history = Append(before, last.text)
               /\ StatsApplied
               /\ game.happiness = Clamp(last.pre_game.happiness + delta[1], 0, 100)
               /\ game.wealth = Max({0, last.pre_game.wealth + delta[2]})

C16_Witness ==
    /\ last.op = "make_choice"
    /\ Len(last.pre_game.player_history) = 1
    /\ game.player_history = Append(last.pre_game.player_history, last.text)
    /\ game.player_history[1] # game.player_history[2]
    /\ game.happiness # last.pre_game.happiness

\* C17: for every pending segment and every k in 1..3 that has a displayed
\* choice, the text a choice request for k applies is the k-th displayed
\* choice (the k-th non-empty line after the CHOICES marker, its leading
\* numbering removed), also when the choices block contains blank lines.
C17_AppliedIsDisplayed ==
    [][(/\ session.has_game_state
        /\ last'.op = "turn"
        /\ ChoiceIndex(last'.data.choice) <= ShownCount(session.current_segment))
          => LET shown == ShownTable[session.current_segment].val
                 k     == ChoiceIndex(last'.data.choice)
             IN  last'.text = LStrip(shown[k], {"1", "2", "3", ".", " "})]_vars

\* C18: a choice request on a session with a stored game, resolved, rejected
\* or failed, builds its object with the stored game_id and leaves the stored
\* game_id as it was generated at the game start; the stored game_id changes
\* only when a new game is started or the session is reset.
C18_GameIdImmutable ==
    [][session.has_game_state =>
          /\ last'.op \in {"turn", "reject"}
                => /\ session'.has_game_state
                   /\ session'.game_state.game_id = session.game_state.game_id
          /\ last'.op = "turn" => game'.game_id = session.game_state.game_id
          /\ session'.game_state.game_id # session.game_state.game_id
                => last'.op \in {"start", "reset"}]_vars

C18_Witness ==
    /\ last.op = "turn"
    /\ last.raised
    /\ last.pre_game.turn_count = 1
    /\ last.pre_game.game_id = MaxGames
    /\ session.game_state.turn_count = 2
    /\ session.game_state.game_id = MaxGames
    /\ game.game_id = MaxGames

\* C19: two choice requests for the same session never work on the same
\* stored state: once the requests in flight have completed, the stored
\* turn_count equals the number of turns that were resolved since the game
\* started, so no resolved turn has been lost.
C19_NoLostUpdate ==
    (AllIdle /\ session.has_game_state)
        => session.game_state.turn_count = last.calls

\* C20: in every state reached from a fresh game by make_choice calls,
\* len(history) <= turn_count, with equality exactly when every turn so far
\* had a non-blank text, a successful store and a successful consequence
\* generation; a turn whose consequence generation fails keeps its stat
\* deltas applied and leaves its choice out of the history.
C20_HistoryCountsCleanTurns ==
    /\ Len(game.player_history) <= game.turn_count
    /\ (Len(game.player_history) = game.turn_count) <=> last.clean
    /\ (StatsApplied /\ ~last.conseq_ok)
           => LET delta == ImpactTable[last.text].val
              IN  /\ game.happiness = Clamp(last.pre_game.happiness + delta[1], 0, 100)
                  /\ game.wealth = Max({0, last.pre_game.wealth + delta[2]})
                  /\ game.player_history = last.pre_game.player_history

C20_Witness ==
    /\ StatsApplied
    /\ ~last.conseq_ok
    /\ last.pre_game.turn_count = 1
    /\ Len(last.pre_game.player_history) = 1
    /\ game.wealth # last.pre_game.wealth
    /\ game.happiness # last.pre_game.happiness
    /\ game.player_history = last.pre_game.player_history
    /\ game.turn_count = 2
    /\ ~last.clean

====
